---- MODULE Spec2Model ----
(***************************************************************************)
(* Conway Deploy: deployment admission control, treasury ledger and        *)
(* position registry of the token-launcher skill                           *)
(* (src/src/skills/token-launcher/index.ts and its collaborators).         *)
(*                                                                         *)
(* Units.  SOL amounts are integers in units of 0.005 SOL, so that         *)
(* 0.05 SOL = 10, 0.5 SOL = 100 and 1.0 SOL = 200; the arithmetic is exact *)
(* (the IEEE-754 rounding of the JavaScript numbers is not modelled).      *)
(* Times are integers in ticks of 30 s (MsPerTick), so one minute is two   *)
(* ticks and the 24 h staleness window is 2880 ticks.                      *)
(*                                                                         *)
(* Every handler is an async function: it is split at its awaits, one      *)
(* action per resumption, and the code between two awaits is one atomic    *)
(* step.  Handlers of different invocations interleave at those points.    *)
(***************************************************************************)
EXTENDS Integers, Sequences, FiniteSets, TLC

\* ---------------------------------------------------------------- bounds
MaxInFlight == 2          \* deploy_memecoin invocations that may overlap
MaxMints == 2             \* mints the deployers may create in one run
MaxAdvance == 2           \* clock advances in one run
MaxConcurrent == 2        \* MAX_CONCURRENT_TOKENS of the modelled config
MaxEarned == 80           \* cap on totalEarned (harvests stop adding beyond it)
MaxUtilityCalls == 1      \* deploy_utility_token invocations in one run
MaxRebalances == 1        \* firings of the treasury_rebalance heartbeat in one run
MaxReviews == 32          \* firings of the strategy_review heartbeat in one run

\* ------------------------------------------------------ program constants
MsPerMinute == 60000
MsPerTick == MsPerMinute \div 2     \* the model's clock counts half minutes
DefaultInitialBuySol == 100
DefaultLpSol == 200
RentGasSol == 10
DefaultSurvivalReserveSol == 100
DefaultCooldownMinutes == 60
StaleMs == 86400000
DefaultCreatorFeeSplit == 10
RebalanceKeepSol == 100
RebalanceMinExcessSol == 20
HistoryLimit == 30
Now0 == 10000
\* SurvivalMapper, in cents of a dollar
CostPerHourNormal == 50
CostPerHourLow == 10
CostPerHourCritical == 2
NormalRunwayHours == 24
LowRunwayHours == 12
BridgeMinUsdc == 100
BridgeSharePercent == 80
BridgeMaxUsdc == 5000

\* ------------------------------------------------------------------ state
VARIABLES
  pumpfunEnabled,        \* config.pumpfunEnabled
  raydiumEnabled,        \* config.raydiumEnabled
  stateByReference,      \* ctx.getState() hands out the live array, not a copy
  feeSplit,              \* config.creatorFeeSplit
  feeHistory,            \* sum of the small incoming transfers in the wallet's recent history
  feesReceived,          \* sum of all fee transfers the wallet has received
  deployedTokens,        \* ctx state "deployedTokens"
  lastDeployTimestamp,   \* ctx state "lastDeployTimestamp" (0 = unset)
  totalInvested,         \* ctx state "totalInvested"
  totalEarned,           \* ctx state "totalEarned"
  solBalance,            \* the wallet's native balance on chain
  now,                   \* Date.now(), in ticks
  advances,              \* number of clock advances so far
  nextMint,              \* next fresh mint (Keypair.generate())
  pc,                    \* deploy_memecoin: position of each invocation
  params,                \* deploy_memecoin: the request's params
  treasury,              \* deploy_memecoin: treasury.solBalance as read
  dmint,                 \* deploy_memecoin: result.mint of deployDirect
  calls,                 \* deploy_memecoin: collaborator operations invoked
  upc,                   \* deploy_utility_token: position, params.lpSol, mint
  ucalls,                \* deploy_utility_token: invocations so far
  ulpSol,
  umint,
  hpc,                   \* harvest_fees: position, tokens in scope, payout
  hscope,
  htotal,
  creatorPaid,           \* sum of the payouts sendSol has delivered to the creator
  fpc,                   \* fee_harvest heartbeat: position, tokens in scope
  fscope,
  ppc,                   \* portfolio_check heartbeat: position, tokens as read
  ptokens,
  tpc,                   \* treasury_rebalance heartbeat: position, swap amount
  tswap,
  tcalls,                \* treasury_rebalance heartbeat: firings so far
  tsnap,                 \* treasury_rebalance heartbeat: the snapshot of line 307
  spc,                   \* checkStatus: position
  sarg,                  \* checkStatus: the treasury it was called with
  scalls,                \* checkStatus: Bridge operations invoked, with amounts
  status,                \* the SurvivalStatus checkStatus returned last
  dailyPerformance,      \* persisted performance history of strategy_review
  reviews,               \* strategy_review heartbeat: firings so far
  returned,              \* what a tool invocation returns in this step, if any
  harvested,             \* what feeHarvester.harvest returns in this step, if anything
  admitted               \* mints recorded by requests that passed the gates

vars == <<pumpfunEnabled, raydiumEnabled, stateByReference, feeSplit, feeHistory,
          feesReceived, harvested, deployedTokens,
          lastDeployTimestamp, totalInvested, totalEarned, solBalance, now, advances,
          nextMint, pc, params, treasury, dmint, calls,
          upc, ucalls, ulpSol, umint, hpc, hscope, htotal, creatorPaid, fpc, fscope, ppc, ptokens,
          tpc, tswap, tcalls, tsnap, spc, sarg, scalls, status, dailyPerformance, reviews, returned, admitted>>

\* the variables of the host's config, of the ledger, and of each handler
configVars == <<pumpfunEnabled, raydiumEnabled, stateByReference, feeSplit>>

chainVars == <<feeHistory, feesReceived>>

ledgerVars == <<lastDeployTimestamp, totalInvested, totalEarned>>

clockVars == <<now, advances>>

memeVars == <<pc, params, treasury, dmint, calls>>

utilVars == <<upc, ucalls, ulpSol, umint>>

harvestVars == <<hpc, hscope, htotal, creatorPaid>>

feeVars == <<fpc, fscope>>

portfolioVars == <<ppc, ptokens>>

rebalanceVars == <<tpc, tswap, tcalls, tsnap>>

survivalVars == <<spc, sarg, scalls, status>>

reviewVars == <<dailyPerformance, reviews>>

Procs == 1..MaxInFlight

\* ----------------------------------------------------------------- config
maxConcurrentTokens == MaxConcurrent

survivalReserveSol == DefaultSurvivalReserveSol

deployCooldownMs == DefaultCooldownMinutes * MsPerMinute

creatorFeeSplit == feeSplit

\* Date.now() in milliseconds
NowMs(t) == t * MsPerTick

\* ---------------------------------------------------------------- helpers
RECURSIVE CountActive(_)
CountActive(tokens) ==
  IF tokens = <<>> THEN 0
  ELSE (IF Head(tokens).status = "active" THEN 1 ELSE 0) + CountActive(Tail(tokens))

Mints(tokens) == {tokens[i].mint : i \in 1..Len(tokens)}

\* x || d of JavaScript on a number: 0 (and undefined, modelled as 0) is falsy
OrDefault(x, d) == IF x = 0 THEN d ELSE x

\* Math.ceil(a / b) for b > 0
CeilDiv(a, b) == -((-a) \div b)

NoError == [reason |-> "", a |-> 0, b |-> 0]

\* what a tool invocation returned: kind "success" ({success: true, ...}),
\* "error" ({error: ...}) or "throw" (the promise rejected)
\* thrown is the message of the collaborator failure that ended it, if any
Returned(tool, kind, err, mint, ops, msg) ==
  [tool |-> tool, kind |-> kind, error |-> err, mint |-> mint, calls |-> ops,
   thrown |-> msg]

NoReturn == Returned("none", "none", NoError, 0, <<>>, "")

\* what feeHarvester.harvest returned: by is the caller, scope the positions it
\* queried, failed the indices of scope whose creator-fee query threw
Harvested(by, scope, failed, breakdown, total, sigs) ==
  [by |-> by, scope |-> scope, failed |-> failed, breakdown |-> breakdown,
   totalHarvested |-> total, txSignatures |-> sigs]

NoHarvest == Harvested("none", <<>>, {}, <<>>, 0, <<>>)

\* a step in which no tool invocation returns and no harvest resolves
Quiet == returned' = NoReturn /\ harvested' = NoHarvest

Message(msg) == [reason |-> msg, a |-> 0, b |-> 0]

\* failure messages of the external collaborators
Messages == {"rpc timeout", "transaction failed"}

\* ------------------------------------------------------- deploy_memecoin
\* the requests the agent issues: 0 stands for an omitted number, "none" for
\* an omitted method
Requests ==
  { [initialBuySol |-> 0,  lpSol |-> 0,  method |-> "none"],
    [initialBuySol |-> 20, lpSol |-> 40, method |-> "pumpfun"],
    [initialBuySol |-> 0,  lpSol |-> 40, method |-> "raydium"] }

NoParams == [initialBuySol |-> 0, lpSol |-> 0, method |-> "none"]

\* line 117
TotalCost(prm) ==
  OrDefault(prm.initialBuySol, DefaultInitialBuySol)
    + OrDefault(prm.lpSol, DefaultLpSol) + RentGasSol

\* the gate of line 113 with > in place of >=
ConcurrencyRejectsAbove(tokens) == CountActive(tokens) > maxConcurrentTokens

\* line 113
ConcurrencyRejects(tokens) == CountActive(tokens) >= maxConcurrentTokens

\* the gate of line 118 with <= in place of <
SolvencyRejectsAtReserve(bal, cost) == bal - cost <= survivalReserveSol

\* line 118
SolvencyRejects(bal, cost) == bal - cost < survivalReserveSol

\* the gate of line 123 passing a request issued in the millisecond of the
\* last deployment
CooldownRejectsElapsed(t, last) ==
  NowMs(t) - NowMs(last) > 0 /\ NowMs(t) - NowMs(last) < deployCooldownMs

\* the gate of line 123 comparing milliseconds with the configured minutes
CooldownRejectsMinutes(t, last) == NowMs(t) - NowMs(last) < DefaultCooldownMinutes

\* line 123
CooldownRejects(t, last) == NowMs(t) - NowMs(last) < deployCooldownMs

\* line 124 with Math.floor in place of Math.ceil
WaitMinutesFloor(t, last) ==
  (deployCooldownMs - (NowMs(t) - NowMs(last))) \div MsPerMinute

\* line 124
WaitMinutes(t, last) ==
  CeilDiv(deployCooldownMs - (NowMs(t) - NowMs(last)), MsPerMinute)

\* lines 113-126 with the cooldown gate moved to the front
PreFlightCooldownFirst(tokens, bal, prm, t, last) ==
  IF CooldownRejects(t, last)
    THEN [reason |-> "Cooldown active", a |-> WaitMinutes(t, last), b |-> 0]
  ELSE IF ConcurrencyRejects(tokens)
    THEN [reason |-> "Max concurrent tokens reached", a |-> maxConcurrentTokens, b |-> 0]
  ELSE IF SolvencyRejects(bal, TotalCost(prm))
    THEN [reason |-> "Insufficient SOL", a |-> TotalCost(prm), b |-> bal - survivalReserveSol]
  ELSE NoError

\* lines 113-126: the error of the first gate that fails, NoError if none does
PreFlight(tokens, bal, prm, t, last) ==
  IF ConcurrencyRejects(tokens)
    THEN [reason |-> "Max concurrent tokens reached", a |-> maxConcurrentTokens, b |-> 0]
  ELSE IF SolvencyRejects(bal, TotalCost(prm))
    THEN [reason |-> "Insufficient SOL", a |-> TotalCost(prm), b |-> bal - survivalReserveSol]
  ELSE IF CooldownRejects(t, last)
    THEN [reason |-> "Cooldown active", a |-> WaitMinutes(t, last), b |-> 0]
  ELSE NoError

\* line 128
Method(prm) == IF prm.method = "none" THEN "pumpfun" ELSE prm.method

\* line 132
UsesPumpFun(prm) == Method(prm) = "pumpfun" /\ pumpfunEnabled

\* line 136
NeedsPool(prm) == raydiumEnabled /\ prm.lpSol # 0

Deployer(prm) == IF UsesPumpFun(prm) THEN "deployViaPumpFun" ELSE "deployDirect"

\* lines 143-154
NewToken(mint, prm, lp, t) ==
  [ mint |-> mint,
    method |-> Method(prm),
    deployedAt |-> t,
    lpAddress |-> lp,
    initialSupply |-> 1000000000,
    retainedSupply |-> IF UsesPumpFun(prm) THEN 0 ELSE 50000000,
    totalFeesEarned |-> 0,
    status |-> "active" ]

\* line 166 returning a fixed text in place of err.message
CatchErrorGeneric(msg) == Message("Deployment failed")

\* line 166: return { error: err.message }
CatchError(msg) == Message(msg)

\* what a deployer transaction debits from the wallet
PumpFunSpend(prm) == OrDefault(prm.initialBuySol, DefaultInitialBuySol) + RentGasSol

DirectSpend == RentGasSol

\* what no step of deploy_memecoin touches
memeFrame == <<configVars, chainVars, survivalVars, reviewVars, clockVars, utilVars, harvestVars, feeVars, portfolioVars,
               rebalanceVars, totalEarned>>

\* what a step of deploy_memecoin that records nothing leaves alone
registryFrame == <<deployedTokens, lastDeployTimestamp, totalInvested, admitted>>

\* the tool is invoked: line 109 issues the balance query and suspends
DeployMemecoinCall(p, prm) ==
  /\ pc[p] = "idle"
  /\ pc' = [pc EXCEPT ![p] = "getBalance"]
  /\ params' = [params EXCEPT ![p] = prm]
  /\ calls' = [calls EXCEPT ![p] = <<"getTreasuryState">>]
  /\ Quiet
  /\ UNCHANGED <<memeFrame, registryFrame, treasury, dmint, solBalance, nextMint>>

\* connection.getBalance resolves (wallet.ts line 43); the USDC lookup follows
GetBalanceReturn(p) ==
  /\ pc[p] = "getBalance"
  /\ pc' = [pc EXCEPT ![p] = "preflight"]
  /\ treasury' = [treasury EXCEPT ![p] = solBalance]
  /\ Quiet
  /\ UNCHANGED <<memeFrame, registryFrame, params, dmint, calls, solBalance, nextMint>>

\* the invocation ends with kind/err/mint: its locals go out of scope
Return(p, kind, err, mint, msg) ==
  /\ returned' =
       Returned("deploy_memecoin", kind, err, mint, calls[p], msg)
  /\ harvested' = NoHarvest
  /\ pc' = [pc EXCEPT ![p] = "idle"]
  /\ params' = [params EXCEPT ![p] = NoParams]
  /\ treasury' = [treasury EXCEPT ![p] = 0]
  /\ dmint' = [dmint EXCEPT ![p] = 0]
  /\ calls' = [calls EXCEPT ![p] = <<>>]

\* connection.getBalance rejects: the handler has no try around line 109
GetBalanceThrow(p, msg) ==
  /\ pc[p] = "getBalance"
  /\ Return(p, "throw", Message(msg), 0, msg)
  /\ UNCHANGED <<memeFrame, registryFrame, solBalance, nextMint>>

\* getTreasuryState resolves: lines 110-135 run up to the deployer call
PreFlightStep(p) ==
  /\ pc[p] = "preflight"
  /\ LET err == PreFlight(deployedTokens, treasury[p], params[p], now, lastDeployTimestamp)
     IN IF err # NoError
          THEN Return(p, "error", err, 0, "")
          ELSE /\ pc' = [pc EXCEPT ![p] = Deployer(params[p])]
               /\ calls' = [calls EXCEPT ![p] = Append(@, Deployer(params[p]))]
               /\ Quiet
               /\ UNCHANGED <<params, treasury, dmint>>
  /\ UNCHANGED <<memeFrame, registryFrame, solBalance, nextMint>>

\* lines 142-163 without the assignment of line 159
RecordWithoutTimestamp(p, mint, lp) ==
  /\ deployedTokens' = Append(deployedTokens, NewToken(mint, params[p], lp, now))
  /\ lastDeployTimestamp' = lastDeployTimestamp
  /\ totalInvested' = totalInvested + TotalCost(params[p])
  /\ admitted' = admitted \cup {mint}
  /\ Return(p, "success", NoError, mint, "")

\* lines 142-163: record the deployment and return success
Record(p, mint, lp) ==
  /\ deployedTokens' = Append(deployedTokens, NewToken(mint, params[p], lp, now))
  /\ lastDeployTimestamp' = now
  /\ totalInvested' = totalInvested + TotalCost(params[p])
  /\ admitted' = admitted \cup {mint}
  /\ Return(p, "success", NoError, mint, "")

\* lines 164-167 invoking the failed collaborator once more
CatchRetry(p, msg) ==
  /\ calls' = [calls EXCEPT ![p] = Append(@, pc[p])]
  /\ Quiet
  /\ UNCHANGED <<pc, params, treasury, dmint, memeFrame, registryFrame, solBalance, nextMint>>

\* lines 164-167: a collaborator threw msg
Catch(p, msg) ==
  /\ Return(p, "error", CatchError(msg), 0, msg)
  /\ UNCHANGED <<memeFrame, registryFrame, solBalance, nextMint>>

\* memecoinDeployer.deployViaPumpFun resolves
DeployViaPumpFunOk(p) ==
  /\ pc[p] = "deployViaPumpFun"
  /\ nextMint <= MaxMints
  /\ solBalance >= PumpFunSpend(params[p])
  /\ solBalance' = solBalance - PumpFunSpend(params[p])
  /\ nextMint' = nextMint + 1
  /\ Record(p, nextMint, "undefined")
  /\ UNCHANGED memeFrame

DeployViaPumpFunFail(p, msg) ==
  /\ pc[p] = "deployViaPumpFun"
  /\ Catch(p, msg)

\* memecoinDeployer.deployDirect resolves: lines 135-139
DeployDirectOk(p) ==
  /\ pc[p] = "deployDirect"
  /\ nextMint <= MaxMints
  /\ solBalance >= DirectSpend
  /\ solBalance' = solBalance - DirectSpend
  /\ nextMint' = nextMint + 1
  /\ IF NeedsPool(params[p])
       THEN /\ pc' = [pc EXCEPT ![p] = "createPool"]
            /\ dmint' = [dmint EXCEPT ![p] = nextMint]
            /\ calls' = [calls EXCEPT ![p] = Append(@, "createPool")]
            /\ Quiet
            /\ UNCHANGED <<registryFrame, params, treasury>>
       ELSE Record(p, nextMint, "undefined")
  /\ UNCHANGED memeFrame

DeployDirectFail(p, msg) ==
  /\ pc[p] = "deployDirect"
  /\ Catch(p, msg)

\* what raydiumManager.createPool debits: the body as built returns a
\* placeholder pool and sends no transaction
PoolSpend(solAmount) == 0

\* raydiumManager.createPool resolves: lines 137-138, then the record
CreatePoolOk(p) ==
  /\ pc[p] = "createPool"
  /\ solBalance >= PoolSpend(params[p].lpSol)
  /\ solBalance' = solBalance - PoolSpend(params[p].lpSol)
  /\ Record(p, dmint[p], "PLACEHOLDER_POOL_ADDRESS")
  /\ UNCHANGED <<memeFrame, nextMint>>

CreatePoolFail(p, msg) ==
  /\ pc[p] = "createPool"
  /\ Catch(p, msg)

DeployMemecoin(p) ==
  \/ \E prm \in Requests : DeployMemecoinCall(p, prm)
  \/ GetBalanceReturn(p)
  \/ PreFlightStep(p)
  \/ DeployViaPumpFunOk(p)
  \/ DeployDirectOk(p)
  \/ CreatePoolOk(p)
  \/ \E msg \in Messages :
       \/ GetBalanceThrow(p, msg)
       \/ DeployViaPumpFunFail(p, msg)
       \/ DeployDirectFail(p, msg)
       \/ CreatePoolFail(p, msg)

\* -------------------------------------------------- deploy_utility_token
UtilityLpSols == {40}

utilFrame == <<configVars, chainVars, survivalVars, reviewVars, clockVars, ledgerVars, memeVars, harvestVars, feeVars,
               portfolioVars, rebalanceVars, admitted>>

\* lines 187-198
UtilityToken(mint, lp, t) ==
  [ mint |-> mint,
    method |-> "spl_direct",
    deployedAt |-> t,
    lpAddress |-> lp,
    initialSupply |-> 1000000000,
    retainedSupply |-> 50000000,
    totalFeesEarned |-> 0,
    status |-> "active" ]

UtilityReturn(kind, err, mint, msg) ==
  /\ returned' = Returned("deploy_utility_token", kind, err, mint, <<>>, msg)
  /\ harvested' = NoHarvest
  /\ upc' = "idle"
  /\ ucalls' = ucalls
  /\ ulpSol' = 0
  /\ umint' = 0

\* lines 187-204
UtilityRecord(mint, lp) ==
  /\ deployedTokens' = Append(deployedTokens, UtilityToken(mint, lp, now))
  /\ UtilityReturn("success", NoError, mint, "")

\* the tool is invoked: line 180 calls the deployer and suspends
DeployUtilityTokenCall(lp) ==
  /\ upc = "idle"
  /\ ucalls < MaxUtilityCalls
  /\ ucalls' = ucalls + 1
  /\ upc' = "deploy"
  /\ ulpSol' = lp
  /\ umint' = 0
  /\ Quiet
  /\ UNCHANGED <<utilFrame, deployedTokens, solBalance, nextMint>>

\* utilityDeployer.deploy resolves: lines 182-204
UtilityDeployOk ==
  /\ upc = "deploy"
  /\ nextMint <= MaxMints
  /\ solBalance >= DirectSpend
  /\ solBalance' = solBalance - DirectSpend
  /\ nextMint' = nextMint + 1
  /\ IF raydiumEnabled /\ ulpSol # 0
       THEN /\ upc' = "createPool"
            /\ umint' = nextMint
            /\ Quiet
            /\ UNCHANGED <<deployedTokens, ulpSol, ucalls>>
       ELSE UtilityRecord(nextMint, "undefined")
  /\ UNCHANGED utilFrame

UtilityCreatePoolOk ==
  /\ upc = "createPool"
  /\ solBalance >= PoolSpend(ulpSol)
  /\ solBalance' = solBalance - PoolSpend(ulpSol)
  /\ UtilityRecord(umint, "PLACEHOLDER_POOL_ADDRESS")
  /\ UNCHANGED <<utilFrame, nextMint>>

\* lines 205-207
UtilityFail(msg) ==
  /\ upc \in {"deploy", "createPool"}
  /\ UtilityReturn("error", CatchError(msg), 0, msg)
  /\ UNCHANGED <<utilFrame, deployedTokens, solBalance, nextMint>>

DeployUtilityToken ==
  \/ \E lp \in UtilityLpSols : DeployUtilityTokenCall(lp)
  \/ UtilityDeployOk
  \/ UtilityCreatePoolOk
  \/ \E msg \in Messages : UtilityFail(msg)

\* ------------------------------------------------------------ harvesting
\* the sums checkPumpFunCreatorFees may find in the wallet's recent history
ObservedFees == {0, 40}

\* pump.fun distributes a batch of creator fees (each transfer below 0.1 SOL)
\* to the wallet
FeeTransferArrives(amount) ==
  /\ amount > 0
  /\ feeHistory + amount \in ObservedFees
  /\ feeHistory' = feeHistory + amount
  /\ feesReceived' = feesReceived + amount
  /\ solBalance' = solBalance + amount
  /\ Quiet
  /\ UNCHANGED <<configVars, clockVars, ledgerVars, memeVars, utilVars, harvestVars,
                 feeVars, portfolioVars, rebalanceVars, survivalVars, reviewVars, admitted, nextMint,
                 deployedTokens>>

\* lines 366-369 without the status test
InScopeAnyStatus(target, tokens) ==
  IF target = 0
    THEN tokens
    ELSE SelectSeq(tokens, LAMBDA t : t.mint = target)

\* FeeHarvester.harvest lines 366-369; target 0 stands for "all"
InScope(target, tokens) ==
  IF target = 0
    THEN SelectSeq(tokens, LAMBDA t : t.status = "active")
    ELSE SelectSeq(tokens, LAMBDA t : t.mint = target /\ t.status = "active")

\* the queries of lines 394-396 with one failure failing them all
CreatorFeeQueriesAbort(scope, failed, history) ==
  [i \in 1..Len(scope) |-> IF failed # {} THEN 0 ELSE history]

\* checkPumpFunCreatorFees, once per position of scope: the sum found in the
\* wallet's history whatever the mint, 0 when a query of it throws (line 465)
CreatorFeeQueries(scope, failed, history) ==
  [i \in 1..Len(scope) |-> IF i \in failed THEN 0 ELSE history]

\* lines 375-407 for one token: collectFees as built returns solFees 0; a
\* pump.fun token gets what its creator-fee query returned
TokenFees(token, fee) ==
  [ tokenMint |-> token.mint,
    lpFees |-> 0,
    creatorFees |-> IF token.method = "pumpfun" THEN fee ELSE 0 ]

\* lines 374-407: fees[i] is what the creator-fee query of scope[i] returned
RECURSIVE Breakdown(_, _)
Breakdown(scope, fees) ==
  IF scope = <<>> THEN <<>>
  ELSE <<TokenFees(Head(scope), Head(fees))>> \o Breakdown(Tail(scope), Tail(fees))

\* the sum of lines 398-399 without the creator fees
RECURSIVE TotalHarvestedLpOnly(_)
TotalHarvestedLpOnly(breakdown) ==
  IF breakdown = <<>> THEN 0
  ELSE Head(breakdown).lpFees + TotalHarvestedLpOnly(Tail(breakdown))

RECURSIVE TotalHarvested(_)
TotalHarvested(breakdown) ==
  IF breakdown = <<>> THEN 0
  ELSE Head(breakdown).lpFees + Head(breakdown).creatorFees + TotalHarvested(Tail(breakdown))

\* RaydiumManager.collectFees as built (part_002 lines 301-317)
CollectFees(poolAddress) == [solFees |-> 0, txSignature |-> "PLACEHOLDER_TX"]

\* lines 380-386 pushing every reference collectFees returned
RECURSIVE TxSignaturesUnfiltered(_)
TxSignaturesUnfiltered(scope) ==
  IF scope = <<>> THEN <<>>
  ELSE (IF Head(scope).lpAddress # "undefined"
          THEN <<CollectFees(Head(scope).lpAddress).txSignature>>
          ELSE <<>>) \o TxSignaturesUnfiltered(Tail(scope))

\* lines 380-386: the references pushed while the loop visits scope
RECURSIVE TxSignatures(_)
TxSignatures(scope) ==
  IF scope = <<>> THEN <<>>
  ELSE (IF /\ Head(scope).lpAddress # "undefined"
           /\ CollectFees(Head(scope).lpAddress).txSignature # "PLACEHOLDER_TX"
          THEN <<CollectFees(Head(scope).lpAddress).txSignature>>
          ELSE <<>>) \o TxSignatures(Tail(scope))

\* what harvest returns for scope when the queries of failed throw
HarvestOf(by, scope, failed) ==
  LET breakdown == Breakdown(scope, CreatorFeeQueries(scope, failed, feeHistory))
  IN Harvested(by, scope, failed, breakdown, TotalHarvested(breakdown),
               TxSignatures(scope))

\* line 223 without the division by 100
CreatorShareTimesSplit(total) == total * creatorFeeSplit

\* line 223, and the Math.floor of sendSol (to the model's unit)
CreatorShare(total) == (total * creatorFeeSplit) \div 100

harvestFrame == <<configVars, chainVars, clockVars, memeVars, utilVars, feeVars, portfolioVars,
                  rebalanceVars, survivalVars, reviewVars, admitted, deployedTokens, nextMint,
                  lastDeployTimestamp, totalInvested>>

HarvestReturn(kind, err, total, msg) ==
  /\ returned' = Returned("harvest_fees", kind, err, total, <<>>, msg)
  /\ hpc' = "idle"
  /\ hscope' = <<>>
  /\ htotal' = 0

\* the tool is invoked: lines 212-215 call harvest, which filters and suspends
HarvestFeesCall(target) ==
  /\ hpc = "idle"
  /\ hpc' = "harvest"
  /\ hscope' = InScope(target, deployedTokens)
  /\ htotal' = 0
  /\ Quiet
  /\ UNCHANGED <<harvestFrame, totalEarned, solBalance, creatorPaid>>

\* line 219 storing the harvested total in place of the sum
AcceptHarvestOverwrite(total) == totalEarned' = total

\* lines 217-219
AcceptHarvest(total) == totalEarned' = totalEarned + total

\* feeHarvester.harvest resolves: lines 217-226 up to the payout
HarvestFeesReturn(failed) ==
  /\ hpc = "harvest"
  /\ failed \subseteq 1..Len(hscope)
  /\ LET result == HarvestOf("harvest_fees", hscope, failed)
         total == result.totalHarvested
     IN /\ totalEarned + total <= MaxEarned
        /\ harvested' = result
        /\ AcceptHarvest(total)
        /\ IF total > 0 /\ creatorFeeSplit > 0
             THEN /\ hpc' = "sendSol"
                  /\ htotal' = total
                  /\ hscope' = hscope
                  /\ returned' = NoReturn
             ELSE HarvestReturn("success", NoError, total, "")
  /\ UNCHANGED <<harvestFrame, solBalance, creatorPaid>>

\* walletManager.sendSol resolves: line 228
SendSolOk ==
  /\ hpc = "sendSol"
  /\ solBalance >= CreatorShare(htotal)
  /\ solBalance' = solBalance - CreatorShare(htotal)
  /\ creatorPaid' = creatorPaid + CreatorShare(htotal)
  /\ HarvestReturn("success", NoError, htotal, "")
  /\ harvested' = NoHarvest
  /\ UNCHANGED <<harvestFrame, totalEarned>>

\* walletManager.sendSol rejects: lines 229-231
SendSolFail(msg) ==
  /\ hpc = "sendSol"
  /\ HarvestReturn("error", CatchError(msg), 0, msg)
  /\ harvested' = NoHarvest
  /\ UNCHANGED <<harvestFrame, totalEarned, solBalance, creatorPaid>>

HarvestFees ==
  \/ \E target \in 0..MaxMints : HarvestFeesCall(target)
  \/ \E failed \in SUBSET (1..MaxMints) : HarvestFeesReturn(failed)
  \/ SendSolOk
  \/ \E msg \in Messages : SendSolFail(msg)

feeFrame == <<configVars, chainVars, clockVars, memeVars, utilVars, harvestVars, portfolioVars,
              rebalanceVars, survivalVars, reviewVars, admitted, deployedTokens, nextMint, solBalance,
              lastDeployTimestamp, totalInvested>>

\* the fee_harvest heartbeat fires: lines 291-296 (no active token: it returns)
FeeHarvestCall ==
  /\ fpc = "idle"
  /\ InScope(0, deployedTokens) # <<>>
  /\ fpc' = "harvest"
  /\ fscope' = InScope(0, InScope(0, deployedTokens))
  /\ Quiet
  /\ UNCHANGED <<feeFrame, totalEarned>>

\* feeHarvester.harvest resolves: lines 297-300
FeeHarvestReturn(failed) ==
  /\ fpc = "harvest"
  /\ failed \subseteq 1..Len(fscope)
  /\ LET result == HarvestOf("fee_harvest", fscope, failed)
         total == result.totalHarvested
     IN /\ totalEarned + total <= MaxEarned
        /\ harvested' = result
        /\ totalEarned' = IF total > 0 THEN totalEarned + total ELSE totalEarned
  /\ fpc' = "idle"
  /\ fscope' = <<>>
  /\ returned' = NoReturn
  /\ UNCHANGED feeFrame

FeeHarvest ==
  \/ FeeHarvestCall
  \/ \E failed \in SUBSET (1..MaxMints) : FeeHarvestReturn(failed)

\* ------------------------------------------------------- portfolio_check
\* getTokenPerformance reporting the trades of the first position
Volume24hTraded(token) == IF token.mint = 1 THEN 5 ELSE 0

\* PortfolioMonitor.getTokenPerformance: the volume24h it reports
Volume24h(token) == 0

\* line 282
IsStale(token, t) == Volume24h(token) = 0 /\ NowMs(t) - NowMs(token.deployedAt) > StaleMs

\* lines 281-286 with the status of a stale position flipped
MarkDeadToggle(tokens, seen, t) ==
  [ i \in 1..Len(tokens) |->
      IF \E j \in 1..Len(seen) : seen[j].mint = tokens[i].mint /\ IsStale(seen[j], t)
        THEN [tokens[i] EXCEPT !.status = IF @ = "dead" THEN "active" ELSE "dead"]
        ELSE tokens[i] ]

\* lines 281-286: tokens is the array written back, seen the tokens looked up
MarkDead(tokens, seen, t) ==
  [ i \in 1..Len(tokens) |->
      IF \E j \in 1..Len(seen) : seen[j].mint = tokens[i].mint /\ IsStale(seen[j], t)
        THEN [tokens[i] EXCEPT !.status = "dead"]
        ELSE tokens[i] ]

portfolioFrame == <<configVars, chainVars, survivalVars, reviewVars, clockVars, ledgerVars, memeVars, utilVars, harvestVars,
                    feeVars, rebalanceVars, admitted, nextMint, solBalance>>

\* the heartbeat fires: lines 274-277 (an empty list: it returns)
PortfolioCheckCall ==
  /\ ppc = "idle"
  /\ deployedTokens # <<>>
  /\ ppc' = "getFullPortfolio"
  /\ ptokens' = deployedTokens
  /\ Quiet
  /\ UNCHANGED <<portfolioFrame, deployedTokens>>

\* getFullPortfolio resolves: lines 278-287.  With a live array the loop of
\* getFullPortfolio also visits tokens pushed while it was suspended (any k up
\* to the current length) and the array written back is the live one; with a
\* copy both are the list read at line 274.
PortfolioCheckReturn(k) ==
  /\ ppc = "getFullPortfolio"
  /\ IF stateByReference
       THEN /\ k \in Len(ptokens)..Len(deployedTokens)
            /\ deployedTokens' = MarkDead(deployedTokens, SubSeq(deployedTokens, 1, k), now)
       ELSE /\ k = Len(ptokens)
            /\ deployedTokens' = MarkDead(ptokens, ptokens, now)
  /\ ppc' = "idle"
  /\ ptokens' = <<>>
  /\ Quiet
  /\ UNCHANGED portfolioFrame

PortfolioCheck ==
  \/ PortfolioCheckCall
  \/ \E k \in 1..MaxMints : PortfolioCheckReturn(k)

\* ---------------------------------------------------- treasury_rebalance
rebalanceFrame == <<configVars, chainVars, reviewVars, clockVars, ledgerVars, memeVars, utilVars, harvestVars,
                    feeVars, portfolioVars, admitted, nextMint, deployedTokens>>

\* line 311
ExcessSol(bal) == bal - survivalReserveSol - RebalanceKeepSol

\* line 314, and the Math.floor of swapSolToUsdc (to the model's unit)
SwapAmount(bal) == ExcessSol(bal) \div 2

\* the heartbeat fires: line 307 issues the balance query and suspends
TreasuryRebalanceCall ==
  /\ tpc = "idle"
  /\ tcalls < MaxRebalances
  /\ tcalls' = tcalls + 1
  /\ tpc' = "getBalance"
  /\ tswap' = 0
  /\ Quiet
  /\ UNCHANGED <<rebalanceFrame, survivalVars, solBalance, tsnap>>

\* getTreasuryState reporting credits fetched from the platform
GetTreasuryStateWithCredits(sol, usdc) ==
  [solBalance |-> sol, usdcBalance |-> usdc, conwayCredits |-> 5]

\* WalletManager.getTreasuryState: the balances read on chain, and the credits
\* of line 57
GetTreasuryState(sol, usdc) ==
  [solBalance |-> sol, usdcBalance |-> usdc, conwayCredits |-> 0]

\* getTreasuryState resolves with usdc in the stable account: lines 308-315 up
\* to the swap
RebalanceBalanceReturn(usdc) ==
  /\ tpc = "getBalance"
  /\ tsnap' = GetTreasuryState(solBalance, usdc)
  /\ IF ExcessSol(solBalance) > RebalanceMinExcessSol
       THEN /\ tpc' = "swap"
            /\ tswap' = SwapAmount(solBalance)
       ELSE /\ tpc' = "checkStatus"
            /\ tswap' = 0
  /\ Quiet
  /\ UNCHANGED <<rebalanceFrame, survivalVars, solBalance, tcalls>>

\* jupiterSwap.swapSolToUsdc resolves, or rejects and is logged: lines 313-319
RebalanceSwapReturn(ok) ==
  /\ tpc = "swap"
  /\ IF ok
       THEN /\ solBalance >= tswap
            /\ solBalance' = solBalance - tswap
       ELSE solBalance' = solBalance
  /\ tpc' = "checkStatus"
  /\ tswap' = 0
  /\ Quiet
  /\ UNCHANGED <<rebalanceFrame, survivalVars, tcalls, tsnap>>

\* --------------------------------------------- SurvivalMapper.checkStatus
\* the treasury snapshots checkStatus is applied to (cents; native in 0.005 SOL)
CreditValues == {-100, 0, 5, 100, 120, 125, 1100, 1200, 1203, 2000}

UsdcValues == {0, 100, 105, 1000, 6250, 10000}

SolValues == {0, 1000}

TreasuryInputs ==
  [solBalance : SolValues, usdcBalance : UsdcValues, conwayCredits : CreditValues]

NoTreasury == [solBalance |-> 0, usdcBalance |-> 0, conwayCredits |-> 0]

\* lines 164 and 168
NormalThreshold == NormalRunwayHours * CostPerHourNormal

LowThreshold == LowRunwayHours * CostPerHourLow

\* lines 164-180 with the second comparison against the first threshold's hours
TierSharedHours(credits) ==
  IF credits > NormalThreshold THEN "normal"
  ELSE IF credits > NormalRunwayHours * CostPerHourLow THEN "low_compute"
  ELSE IF credits > 0 THEN "critical"
  ELSE "dead"

\* lines 164-180 comparing the credits (cents) with the hours alone
TierByHours(credits) ==
  IF credits > NormalRunwayHours * 100 THEN "normal"
  ELSE IF credits > LowRunwayHours * 100 THEN "low_compute"
  ELSE IF credits > 0 THEN "critical"
  ELSE "dead"

\* lines 164-180
Tier(credits) ==
  IF credits > NormalThreshold THEN "normal"
  ELSE IF credits > LowThreshold THEN "low_compute"
  ELSE IF credits > 0 THEN "critical"
  ELSE "dead"

\* lines 167, 171, 175, 179
CostPerHour(tier) ==
  CASE tier = "normal" -> CostPerHourNormal
    [] tier = "low_compute" -> CostPerHourLow
    [] tier = "critical" -> CostPerHourCritical
    [] OTHER -> 0

\* Math.round of a / b for a >= 0, b > 0
RoundDiv(a, b) == (2 * a + b) \div (2 * b)

\* lines 182-183 and 203 dividing by the normal rate in every tier
EstimatedRunwayAtNormalRate(credits) ==
  IF CostPerHour(Tier(credits)) > 0
    THEN RoundDiv(credits * 10, CostPerHourNormal)
    ELSE 0

\* lines 182-183 and 203, in tenths of an hour
EstimatedRunwayHours(credits) ==
  IF CostPerHour(Tier(credits)) > 0
    THEN RoundDiv(credits * 10, CostPerHour(Tier(credits)))
    ELSE 0

\* lines 186-189 with >= in place of >
ShouldBridgeFromOne(tier, usdc) == tier \in {"low_compute", "critical"} /\ usdc >= BridgeMinUsdc

\* lines 186-189
ShouldBridge(tier, usdc) == tier \in {"low_compute", "critical"} /\ usdc > BridgeMinUsdc

\* line 190
BridgeAmount(usdc) ==
  IF (usdc * BridgeSharePercent) \div 100 < BridgeMaxUsdc
    THEN (usdc * BridgeSharePercent) \div 100
    ELSE BridgeMaxUsdc

\* lines 200-207: note is what lines 194 or 196 appended to the tier's message
SurvivalStatus(t, note, amount, msg) ==
  [ tier |-> Tier(t.conwayCredits),
    conwayCredits |-> t.conwayCredits,
    estimatedRunwayHours |-> EstimatedRunwayHours(t.conwayCredits),
    solBalance |-> t.solBalance,
    usdcBalance |-> t.usdcBalance,
    action |-> [base |-> Tier(t.conwayCredits), note |-> note, amount |-> amount,
                error |-> msg] ]

NoStatus == SurvivalStatus(NoTreasury, "none", 0, "")

survivalFrame == <<configVars, chainVars, reviewVars, clockVars, ledgerVars, memeVars, utilVars,
                   harvestVars, feeVars, portfolioVars, rebalanceVars, admitted, nextMint,
                   deployedTokens, solBalance>>

\* lines 200-207 returning the tier's message as it was before the attempt
StatusReturnBase(note, amount, msg) ==
  /\ status' = SurvivalStatus(sarg, "none", 0, "")
  /\ spc' = "idle"
  /\ sarg' = NoTreasury

StatusReturn(note, amount, msg) ==
  /\ status' = SurvivalStatus(sarg, note, amount, msg)
  /\ spc' = "idle"
  /\ sarg' = NoTreasury

\* checkStatus is called with t: lines 147-192 up to the first Bridge call
CheckStatusCall(t) ==
  /\ spc = "idle"
  /\ IF ShouldBridge(Tier(t.conwayCredits), t.usdcBalance)
       THEN /\ spc' = "bridgeUsdcToBase"
            /\ sarg' = t
            /\ scalls' = <<[op |-> "bridgeUsdcToBase", amount |-> BridgeAmount(t.usdcBalance)]>>
            /\ status' = status
       ELSE /\ status' = SurvivalStatus(t, "none", 0, "")
            /\ spc' = "idle"
            /\ sarg' = NoTreasury
            /\ scalls' = <<>>
  /\ Quiet
  /\ UNCHANGED survivalFrame

\* bridge.bridgeUsdcToBase resolves: line 193 calls the top-up
BridgeUsdcToBaseOk ==
  /\ spc = "bridgeUsdcToBase"
  /\ spc' = "topUpConwayCredits"
  /\ scalls' = Append(scalls, [op |-> "topUpConwayCredits", amount |-> scalls[1].amount])
  /\ Quiet
  /\ UNCHANGED <<survivalFrame, sarg, status>>

\* bridge.topUpConwayCredits resolves: lines 194, 200-207
TopUpConwayCreditsOk ==
  /\ spc = "topUpConwayCredits"
  /\ StatusReturn("bridging", scalls[1].amount, "")
  /\ Quiet
  /\ UNCHANGED <<survivalFrame, scalls>>

\* lines 195-197 with the top-up attempted after a failed conversion
BridgeFailThenTopUp(msg) ==
  /\ spc \in {"bridgeUsdcToBase", "topUpConwayCredits"}
  /\ StatusReturn("failed", 0, msg)
  /\ scalls' = IF spc = "bridgeUsdcToBase"
                 THEN Append(scalls, [op |-> "topUpConwayCredits", amount |-> scalls[1].amount])
                 ELSE scalls
  /\ Quiet
  /\ UNCHANGED survivalFrame

\* either Bridge call rejects: lines 195-197, 200-207
BridgeFail(msg) ==
  /\ spc \in {"bridgeUsdcToBase", "topUpConwayCredits"}
  /\ StatusReturn("failed", 0, msg)
  /\ Quiet
  /\ UNCHANGED <<survivalFrame, scalls>>

CheckStatus ==
  \/ \E t \in TreasuryInputs : CheckStatusCall(t)
  \/ BridgeUsdcToBaseOk
  \/ TopUpConwayCreditsOk
  \/ \E msg \in Messages : BridgeFail(msg)

\* ------------------------------ treasury_rebalance: the survival check
\* line 323 calls survivalMapper.checkStatus with the snapshot of line 307, no
\* other checkStatus being in flight; the steps of an auto-bridge attempt are
\* BridgeUsdcToBaseOk, TopUpConwayCreditsOk and BridgeFail, and lines 324-326
\* only log
RebalanceStatusReturn ==
  /\ tpc = "checkStatus"
  /\ spc = "idle"
  /\ IF ShouldBridge(Tier(tsnap.conwayCredits), tsnap.usdcBalance)
       THEN /\ spc' = "bridgeUsdcToBase"
            /\ sarg' = tsnap
            /\ scalls' = <<[op |-> "bridgeUsdcToBase",
                            amount |-> BridgeAmount(tsnap.usdcBalance)]>>
            /\ status' = status
       ELSE /\ status' = SurvivalStatus(tsnap, "none", 0, "")
            /\ spc' = "idle"
            /\ sarg' = NoTreasury
            /\ scalls' = <<>>
  /\ tpc' = "idle"
  /\ tswap' = 0
  /\ tsnap' = NoTreasury
  /\ Quiet
  /\ UNCHANGED <<rebalanceFrame, solBalance, tcalls>>

\* the heartbeat with the stable account holding one of the given balances
TreasuryRebalanceOver(stable) ==
  \/ TreasuryRebalanceCall
  \/ \E usdc \in stable : RebalanceBalanceReturn(usdc)
  \/ \E ok \in BOOLEAN : RebalanceSwapReturn(ok)
  \/ RebalanceStatusReturn

TreasuryRebalance == TreasuryRebalanceOver(UsdcValues)

\* -------------------------------------------------------- strategy_review
\* history.slice(0, n) in place of slice(-n)
KeepFirst(history, n) ==
  IF Len(history) > n THEN SubSeq(history, 1, n) ELSE history

\* history.slice(-n): line 351
KeepLast(history, n) ==
  IF Len(history) > n THEN SubSeq(history, Len(history) - n + 1, Len(history)) ELSE history

\* lines 345-346: the reduce keeps the first token whose totalFeesEarned
\* exceeds that of the best so far (0 for none); 0 stands for null
RECURSIVE BestPerformer(_, _)
BestPerformer(tokens, best) ==
  IF tokens = <<>> THEN best
  ELSE BestPerformer(Tail(tokens),
         IF Head(tokens).totalFeesEarned > best.totalFeesEarned
           THEN [mint |-> Head(tokens).mint, totalFeesEarned |-> Head(tokens).totalFeesEarned]
           ELSE best)

\* lines 337-347; run is the ordinal of the firing, which the date stands for
PerformanceData(run) ==
  [ run |-> run,
    date |-> now,
    totalTokens |-> Len(deployedTokens),
    activeTokens |-> CountActive(deployedTokens),
    deadTokens |-> Len(SelectSeq(deployedTokens, LAMBDA t : t.status = "dead")),
    totalInvested |-> totalInvested,
    totalEarned |-> totalEarned,
    netPnl |-> totalEarned - totalInvested,
    bestPerformer |-> BestPerformer(deployedTokens, [mint |-> 0, totalFeesEarned |-> 0]).mint ]

reviewFrame == <<configVars, chainVars, survivalVars, clockVars, ledgerVars, memeVars,
                 utilVars, harvestVars, feeVars, portfolioVars, rebalanceVars, admitted,
                 nextMint, deployedTokens, solBalance>>

\* the strategy_review heartbeat fires: lines 329-352, no await inside
StrategyReview ==
  /\ reviews < MaxReviews
  /\ reviews' = reviews + 1
  /\ dailyPerformance' =
       KeepLast(Append(dailyPerformance, PerformanceData(reviews + 1)), HistoryLimit)
  /\ Quiet
  /\ UNCHANGED reviewFrame

\* ------------------------------------------------------------------ clock
StaleTicks == StaleMs \div MsPerTick

CooldownTicks == deployCooldownMs \div MsPerTick

\* the clock moves by one tick, to the tick before a cooldown ends, or by a day
AdvanceSteps == {1, CooldownTicks - 1, StaleTicks}

Advance(d) ==
  /\ advances < MaxAdvance
  /\ now' = now + d
  /\ advances' = advances + 1
  /\ UNCHANGED <<configVars, chainVars, survivalVars, reviewVars, ledgerVars, memeVars, utilVars, harvestVars, feeVars,
                 portfolioVars, rebalanceVars, admitted, nextMint, deployedTokens,
                 solBalance>>
  /\ Quiet

\* ------------------------------------------------------- the state machine
\* the reserve itself, the reserve plus the default cost, and a full wallet
InitialBalances == {100, 410, 1000}

\* the state after register() on a host whose persisted state holds tokens,
\* recorded by deploy_memecoin requests of total cost invested
InitFrom(tokens, invested, balances, firstMint) ==
  /\ pumpfunEnabled \in BOOLEAN
  /\ raydiumEnabled \in BOOLEAN
  /\ stateByReference \in BOOLEAN
  /\ feeSplit \in {0, DefaultCreatorFeeSplit}
  /\ feeHistory \in ObservedFees
  /\ feesReceived = feeHistory
  /\ harvested = NoHarvest
  /\ deployedTokens = tokens
  /\ lastDeployTimestamp =
       IF tokens = <<>> THEN 0 ELSE tokens[Len(tokens)].deployedAt
  /\ totalInvested = invested
  /\ totalEarned = 0
  /\ solBalance \in balances
  /\ now = Now0
  /\ advances = 0
  /\ nextMint = firstMint
  /\ pc = [p \in Procs |-> "idle"]
  /\ params = [p \in Procs |-> NoParams]
  /\ treasury = [p \in Procs |-> 0]
  /\ dmint = [p \in Procs |-> 0]
  /\ calls = [p \in Procs |-> <<>>]
  /\ upc = "idle"
  /\ ucalls = 0
  /\ ulpSol = 0
  /\ umint = 0
  /\ hpc = "idle"
  /\ hscope = <<>>
  /\ htotal = 0
  /\ creatorPaid = 0
  /\ fpc = "idle"
  /\ fscope = <<>>
  /\ ppc = "idle"
  /\ ptokens = <<>>
  /\ tpc = "idle"
  /\ tswap = 0
  /\ tcalls = 0
  /\ tsnap = NoTreasury
  /\ spc = "idle"
  /\ sarg = NoTreasury
  /\ scalls = <<>>
  /\ status = NoStatus
  /\ dailyPerformance = <<>>
  /\ reviews = 0
  /\ returned = NoReturn
  /\ admitted = Mints(tokens)

\* a start over the positions 1..Len(tokens) earlier requests recorded
InitWith(tokens, invested, balances) ==
  InitFrom(tokens, invested, balances, Len(tokens) + 1)

\* a first start: nothing persisted
InitAfter(tokens, invested) == InitWith(tokens, invested, InitialBalances)

Init == InitAfter(<<>>, 0)

Next ==
  \/ \E p \in Procs : DeployMemecoin(p)
  \/ DeployUtilityToken
  \/ HarvestFees
  \/ FeeHarvest
  \/ PortfolioCheck
  \/ TreasuryRebalance
  \/ CheckStatus
  \/ StrategyReview
  \/ \E amount \in ObservedFees : FeeTransferArrives(amount)
  \/ \E d \in AdvanceSteps : Advance(d)

Spec == Init /\ [][Next]_vars

\* the default fee split, and a batch of fees in the wallet's recent history
InitFees == feeSplit = DefaultCreatorFeeSplit /\ feeHistory = 40

\* a host whose getState hands out a copy of the stored list
InitCopy == Init /\ ~stateByReference /\ InitFees

\* one deploy_memecoin request at a time, with deploy_utility_token and the
\* clock running between its steps
NextAdmission ==
  \/ DeployMemecoin(1)
  \/ DeployUtilityToken
  \/ \E d \in {1, CooldownTicks - 1} : Advance(d)

SpecAdmission == InitCopy /\ [][NextAdmission]_vars

\* overlapping deploy_memecoin requests
NextOverlap ==
  \/ \E p \in Procs : DeployMemecoin(p)
  \/ \E d \in {1, CooldownTicks - 1} : Advance(d)

SpecOverlap == InitCopy /\ [][NextOverlap]_vars

\* everything that spends from the wallet: both deployment tools, the creator
\* payout of harvest_fees and the swap of treasury_rebalance (the stable
\* account at 1.05 USDC)
NextTreasury ==
  \/ DeployMemecoin(1)
  \/ DeployUtilityToken
  \/ HarvestFees
  \/ TreasuryRebalanceOver({105})

\* the configuration with both venues enabled
InitTreasury == InitCopy /\ pumpfunEnabled /\ raydiumEnabled

SpecTreasury == InitTreasury /\ [][NextTreasury]_vars

\* the writers of the position list: deploy_memecoin and the portfolio_check
\* heartbeat, with the clock moving up to a day at a time
NextRegistry ==
  \/ DeployMemecoin(1)
  \/ PortfolioCheck
  \/ \E d \in {1, StaleTicks} : Advance(d)

InitRegistry == Init /\ InitFees

SpecRegistry == InitRegistry /\ [][NextRegistry]_vars

\* registries earlier runs left behind: default requests recorded a cooldown
\* apart, one of them on the direct path with a pool, one marked dead since
DefaultRequest == [initialBuySol |-> 0, lpSol |-> 0, method |-> "none"]

PoolRequest == [initialBuySol |-> 0, lpSol |-> 40, method |-> "raydium"]

Earlier(k) == Now0 - k * CooldownTicks

HarvestRegistries ==
  << [tokens |-> <<NewToken(1, DefaultRequest, "undefined", Earlier(1))>>,
     invested |-> TotalCost(DefaultRequest)],
    [tokens |-> <<NewToken(1, DefaultRequest, "undefined", Earlier(2)),
                  NewToken(2, DefaultRequest, "undefined", Earlier(1))>>,
     invested |-> 2 * TotalCost(DefaultRequest)],
    [tokens |-> <<NewToken(1, PoolRequest, "PLACEHOLDER_POOL_ADDRESS", Earlier(2)),
                  NewToken(2, DefaultRequest, "undefined", Earlier(1))>>,
     invested |-> TotalCost(PoolRequest) + TotalCost(DefaultRequest)],
    [tokens |-> <<[NewToken(1, DefaultRequest, "undefined", Earlier(2))
                     EXCEPT !.status = "dead"],
                  NewToken(2, DefaultRequest, "undefined", Earlier(1))>>,
     invested |-> 2 * TotalCost(DefaultRequest)],
    [tokens |-> <<[NewToken(1, DefaultRequest, "undefined", Earlier(2))
                     EXCEPT !.status = "graduated"],
                  NewToken(2, DefaultRequest, "undefined", Earlier(1))>>,
     invested |-> 2 * TotalCost(DefaultRequest)] >>

\* the fee paths: harvest_fees and the fee_harvest heartbeat over the
\* positions of such a registry, with a batch of fees arriving
NextHarvest ==
  \/ HarvestFees
  \/ FeeHarvest
  \/ \E amount \in ObservedFees : FeeTransferArrives(amount)

InitHarvest ==
  /\ \E k \in 1..5 :
       InitAfter(HarvestRegistries[k].tokens, HarvestRegistries[k].invested)
  /\ pumpfunEnabled
  /\ raydiumEnabled
  /\ ~stateByReference
  /\ solBalance = 1000

SpecHarvest == InitHarvest /\ [][NextHarvest]_vars

\* the same with every pending call resolving, the heartbeat firing again and
\* again, and a payout that is attempted again and again succeeding
SpecHarvestFair ==
  /\ SpecHarvest
  /\ WF_vars(HarvestFees)
  /\ WF_vars(FeeHarvest)
  /\ SF_vars(SendSolOk)

\* registries the persisted state can hold when portfolio_check fires: one
\* position a tick older than the staleness window and one exactly at it, the
\* older one active, graduated (index.ts:49) or already dead
AgedRequest(st, age) ==
  [NewToken(1, DefaultRequest, "undefined", Now0 - age) EXCEPT !.status = st]

PortfolioRegistries ==
  << <<AgedRequest("active", StaleTicks + 1),
       NewToken(2, DefaultRequest, "undefined", Now0 - StaleTicks)>>,
     <<AgedRequest("graduated", StaleTicks + 1),
       NewToken(2, DefaultRequest, "undefined", Now0 - StaleTicks)>>,
     <<AgedRequest("dead", StaleTicks + 1),
       NewToken(2, DefaultRequest, "undefined", Now0 - StaleTicks)>> >>

\* the portfolio_check heartbeat over such a registry, with the clock moving
NextPortfolio ==
  \/ PortfolioCheck
  \/ \E d \in {1, StaleTicks} : Advance(d)

InitPortfolio ==
  /\ \E k \in 1..3 :
       InitAfter(PortfolioRegistries[k], 2 * TotalCost(DefaultRequest))
  /\ pumpfunEnabled
  /\ raydiumEnabled
  /\ InitFees

SpecPortfolio == InitPortfolio /\ [][NextPortfolio]_vars

\* the end-to-end scenario: a wallet of 2.0 SOL, the default reserve of 0.5
\* and requests whose projected cost is 1.0, split in three ways
ScenarioBalance == 400

ScenarioRequests ==
  { [initialBuySol |-> 100, lpSol |-> 90,  method |-> "pumpfun"],
    [initialBuySol |-> 90,  lpSol |-> 100, method |-> "pumpfun"],
    [initialBuySol |-> 90,  lpSol |-> 100, method |-> "raydium"] }

NextScenario ==
  \/ \E prm \in ScenarioRequests : DeployMemecoinCall(1, prm)
  \/ GetBalanceReturn(1)
  \/ PreFlightStep(1)
  \/ DeployViaPumpFunOk(1)
  \/ DeployDirectOk(1)
  \/ CreatePoolOk(1)
  \/ \E msg \in Messages : GetBalanceThrow(1, msg)
  \/ \E msg \in Messages : DeployViaPumpFunFail(1, msg)
  \/ \E msg \in Messages : DeployDirectFail(1, msg)
  \/ \E msg \in Messages : CreatePoolFail(1, msg)
  \/ \E d \in {1, CooldownTicks - 1} : Advance(d)

InitScenario ==
  /\ InitWith(<<>>, 0, {ScenarioBalance})
  /\ pumpfunEnabled
  /\ raydiumEnabled
  /\ ~stateByReference
  /\ InitFees

SpecScenario == InitScenario /\ [][NextScenario]_vars

\* the strategy_review heartbeat with the clock moving between firings
NextReview ==
  \/ StrategyReview
  \/ \E d \in {1, StaleTicks} : Advance(d)

InitReview == InitCopy /\ pumpfunEnabled /\ raydiumEnabled /\ solBalance = 1000

SpecReview == InitReview /\ [][NextReview]_vars

\* both deployment tools and both fee paths, from a first start with the
\* default configuration and a full wallet
NextLedger ==
  \/ DeployMemecoin(1)
  \/ DeployUtilityToken
  \/ HarvestFees
  \/ FeeHarvest

InitLedger == InitCopy /\ pumpfunEnabled /\ raydiumEnabled /\ solBalance = 1000

SpecLedger == InitLedger /\ [][NextLedger]_vars

\* checkStatus applied to treasury snapshots, one call after the other
NextSurvival == CheckStatus

InitSurvival == InitCopy /\ pumpfunEnabled /\ raydiumEnabled /\ solBalance = 1000

SpecSurvival == InitSurvival /\ [][NextSurvival]_vars

\* ------------------------------------------------ properties: admission
\* the number of status=active positions, counted from the list itself
ActiveCount == Cardinality({i \in 1..Len(deployedTokens) : deployedTokens[i].status = "active"})

\* the projected cost C of a request: buy + liquidity + overhead, with the
\* defaults for an omitted or zero amount
ProjectedCost(prm) ==
  (IF prm.initialBuySol = 0 THEN DefaultInitialBuySol ELSE prm.initialBuySol)
    + (IF prm.lpSol = 0 THEN DefaultLpSol ELSE prm.lpSol) + RentGasSol

\* the time since the last accepted deployment is inside the cooldown
InsideCooldown == NowMs(now) - NowMs(lastDeployTimestamp) < deployCooldownMs

\* the request of p is at its gates in this state and leaves them in the step
AtGates(p) == pc[p] = "preflight" /\ pc'[p] # "preflight"

\* the request of p is rejected in the step with the given reason
RejectedWith(p, reason) ==
  /\ pc'[p] = "idle"
  /\ returned'.tool = "deploy_memecoin"
  /\ returned'.kind = "error"
  /\ returned'.error.reason = reason

DeployerStates == {"deployViaPumpFun", "deployDirect"}

CollaboratorStates == {"deployViaPumpFun", "deployDirect", "createPool"}

\* C1: a deploy_memecoin request that reaches its gates while the number of
\* active positions is at least maxConcurrentTokens is rejected with an error,
\* has called no deployer (its only call was the balance query), and neither
\* the rejection nor the steps before it change totalInvested, totalEarned,
\* lastDeployTimestamp or the position list.
C1_ConcurrencyRejects ==
  [][\A p \in Procs :
       /\ (AtGates(p) /\ ActiveCount >= maxConcurrentTokens)
            => /\ pc'[p] = "idle"
               /\ returned'.tool = "deploy_memecoin"
               /\ returned'.kind = "error"
               /\ returned'.calls = <<"getTreasuryState">>
               /\ UNCHANGED <<totalInvested, totalEarned, lastDeployTimestamp,
                              deployedTokens>>
       /\ (pc[p] \in {"idle", "getBalance"} /\ pc'[p] # pc[p])
            => UNCHANGED <<totalInvested, totalEarned, lastDeployTimestamp,
                           deployedTokens>>]_vars

C1_Witness ==
  /\ returned.tool = "deploy_memecoin"
  /\ returned.kind = "error"
  /\ returned.error.reason = "Max concurrent tokens reached"
  /\ ActiveCount >= maxConcurrentTokens

C4_FirstFailingGate ==
  [][\A p \in Procs :
       AtGates(p) =>
         LET short == treasury[p] - ProjectedCost(params[p]) < survivalReserveSol
             full == ActiveCount >= maxConcurrentTokens
         IN /\ full => RejectedWith(p, "Max concurrent tokens reached")
            /\ (~full /\ short) => RejectedWith(p, "Insufficient SOL")
            /\ (~full /\ ~short /\ InsideCooldown) => RejectedWith(p, "Cooldown active")
            /\ (pc'[p] = "idle") =>
                 /\ returned'.error.reason # "Max concurrent tokens reached" \/ full
                 /\ returned'.error.reason # "Insufficient SOL" \/ short
                 /\ returned'.error.reason # "Cooldown active" \/ InsideCooldown]_vars

\* the solvency reason returned while the cooldown is active as well
C4_Witness ==
  /\ returned.tool = "deploy_memecoin"
  /\ returned.error.reason = "Insufficient SOL"
  /\ lastDeployTimestamp # 0
  /\ InsideCooldown

\* C5: when the last collaborator of an admitted request resolves, exactly one
\* position is appended with the returned mint, status active and
\* totalFeesEarned 0, lastDeployTimestamp becomes the current time and
\* totalInvested grows by the projected cost of the solvency check; no earlier
\* step of the request makes any of the three updates.
C5_RecordOnSuccess ==
  [][\A p \in Procs :
       /\ (pc[p] \in CollaboratorStates /\ pc'[p] = "idle" /\ returned'.thrown = "")
            => /\ returned'.tool = "deploy_memecoin"
               /\ returned'.kind = "success"
               /\ Len(deployedTokens') = Len(deployedTokens) + 1
               /\ SubSeq(deployedTokens', 1, Len(deployedTokens)) = deployedTokens
               /\ deployedTokens'[Len(deployedTokens')].mint = returned'.mint
               /\ deployedTokens'[Len(deployedTokens')].status = "active"
               /\ deployedTokens'[Len(deployedTokens')].totalFeesEarned = 0
               /\ lastDeployTimestamp' = now
               /\ totalInvested' = totalInvested + ProjectedCost(params[p])
       /\ (pc'[p] # pc[p] /\ ~(pc[p] \in CollaboratorStates /\ pc'[p] = "idle"))
            => UNCHANGED <<deployedTokens, lastDeployTimestamp, totalInvested>>]_vars

\* a deployment recorded after pool creation on the direct path
C5_Witness ==
  /\ returned.tool = "deploy_memecoin"
  /\ returned.kind = "success"
  /\ returned.calls = <<"getTreasuryState", "deployDirect", "createPool">>
  /\ deployedTokens # <<>>
  /\ deployedTokens[Len(deployedTokens)].mint = returned.mint

\* C6: when a collaborator of an admitted request fails with message m, the
\* position list, lastDeployTimestamp, totalInvested and totalEarned are
\* unchanged and the tool returns {error: m}.
C6_FailureLeavesState ==
  [][\A p \in Procs :
       (pc[p] \in CollaboratorStates /\ pc'[p] = "idle" /\ returned'.thrown # "")
         => /\ returned'.tool = "deploy_memecoin"
            /\ returned'.kind = "error"
            /\ returned'.error = [reason |-> returned'.thrown, a |-> 0, b |-> 0]
            /\ UNCHANGED <<deployedTokens, lastDeployTimestamp, totalInvested,
                           totalEarned>>]_vars

\* createPool failed after deployDirect had succeeded
C6_Witness ==
  /\ returned.tool = "deploy_memecoin"
  /\ returned.kind = "error"
  /\ returned.thrown # ""
  /\ returned.calls = <<"getTreasuryState", "deployDirect", "createPool">>

\* C9: every position in the registry was appended by a deploy_memecoin
\* request that had passed the three gates.
C9_OnlyAdmittedPositions ==
  \A i \in 1..Len(deployedTokens) : deployedTokens[i].mint \in admitted

\* ------------------------------------------- properties: races and reserve
\* C7: any two accepted deployments were accepted at least deployCooldownMs
\* apart, also when several deploy_memecoin requests are in flight together.
C7_AcceptancesApart ==
  \A i, j \in 1..Len(deployedTokens) :
    (i < j /\ deployedTokens[i].mint \in admitted /\ deployedTokens[j].mint \in admitted)
      => NowMs(deployedTokens[j].deployedAt) - NowMs(deployedTokens[i].deployedAt)
           >= deployCooldownMs

\* C8: the native balance, at least survivalReserveSol at the start, is never
\* brought below survivalReserveSol by the agent's own spends.
C8_ReserveKept == solBalance >= survivalReserveSol

\* C10: a mint in the position list is in the position list after every step.
C10_NeverRemoved ==
  [][\A i \in 1..Len(deployedTokens) :
       \E j \in 1..Len(deployedTokens') :
         deployedTokens'[j].mint = deployedTokens[i].mint]_vars

\* ------------------------------------------------- properties: fee paths
\* the sum of lpFees + creatorFees over a breakdown
RECURSIVE BreakdownSum(_)
BreakdownSum(b) ==
  IF b = <<>> THEN 0
  ELSE b[1].lpFees + b[1].creatorFees + BreakdownSum(SubSeq(b, 2, Len(b)))

\* feeHarvester.harvest resolves in this step
HarvestResolves == harvested'.by # "none"

C12_FailureIsolated ==
  [][HarvestResolves =>
       LET h == harvested'
       IN /\ Len(h.breakdown) = Len(h.scope)
          /\ \A i \in 1..Len(h.scope) :
               /\ h.breakdown[i].tokenMint = h.scope[i].mint
               /\ h.breakdown[i].lpFees = 0
               /\ (i \in h.failed) => h.breakdown[i].creatorFees = 0
               /\ (i \notin h.failed /\ h.scope[i].method = "pumpfun")
                    => h.breakdown[i].creatorFees = feeHistory
          /\ h.totalHarvested = BreakdownSum(h.breakdown)]_vars

\* two positions in scope, the query of one failed, the other contributes
C12_Witness ==
  /\ harvested.by # "none"
  /\ Len(harvested.scope) = 2
  /\ Cardinality(harvested.failed) = 1
  /\ harvested.totalHarvested > 0

\* C13: when the harvest of a harvest_fees call resolves, totalEarned grows by
\* the sum of lpFees + creatorFees over the returned breakdown, and the payout
\* that follows, succeeding or failing, leaves totalEarned as it is.
C13_EarnedBySum ==
  [][/\ (harvested'.by = "harvest_fees")
          => totalEarned' = totalEarned + BreakdownSum(harvested'.breakdown)
     /\ (hpc = "sendSol" /\ hpc' # "sendSol") => totalEarned' = totalEarned]_vars

\* a harvest was added and its payout failed
C13_Witness ==
  /\ returned.tool = "harvest_fees"
  /\ returned.kind = "error"
  /\ returned.thrown # ""
  /\ totalEarned > 0

\* C14: the creator payout is issued only in the step that adds the harvested
\* total to totalEarned, only for a total > 0 with creatorFeeSplit > 0; the
\* transfer debits total * creatorFeeSplit / 100, and a failed transfer leaves
\* totalEarned and the balance alone.
C14_PayoutAfterLedger ==
  [][/\ (hpc # "sendSol" /\ hpc' = "sendSol")
          => /\ harvested'.by = "harvest_fees"
             /\ harvested'.totalHarvested > 0
             /\ creatorFeeSplit > 0
             /\ htotal' = harvested'.totalHarvested
             /\ totalEarned' = totalEarned + harvested'.totalHarvested
     /\ (harvested'.by = "harvest_fees" /\ hpc' # "sendSol")
          => (harvested'.totalHarvested = 0 \/ creatorFeeSplit = 0)
     /\ (solBalance' < solBalance)
          => /\ hpc = "sendSol"
             /\ returned'.kind = "success"
             /\ (solBalance - solBalance') * 100 = htotal * creatorFeeSplit
     /\ (hpc = "sendSol" /\ returned'.kind = "error")
          => /\ totalEarned' = totalEarned
             /\ solBalance' = solBalance]_vars

\* the share of a harvest has been delivered
C14_Witness ==
  /\ returned.tool = "harvest_fees"
  /\ returned.kind = "success"
  /\ creatorPaid > 0
  /\ creatorPaid * 100 = totalEarned * creatorFeeSplit

\* the share of one harvest of the observed fee sum at the default split
OneShare == (40 * DefaultCreatorFeeSplit) \div 100

\* C15: with the default creatorFeeSplit, the share of what harvest_fees and
\* fee_harvest have added to totalEarned is eventually delivered to the creator
\* address (stated for the first and for the second harvest of the observed
\* fee sum).
C15_CreatorPaid ==
  /\ (creatorFeeSplit = DefaultCreatorFeeSplit /\ totalEarned >= 40)
       ~> (creatorPaid >= OneShare)
  /\ (creatorFeeSplit = DefaultCreatorFeeSplit /\ totalEarned >= 80)
       ~> (creatorPaid >= 2 * OneShare)

\* C16: when a harvest resolves with amount a = lpFees + creatorFees for a
\* position, the totalFeesEarned of that position in the registry grows by a.
C16_PositionFeesUpdated ==
  [][HarvestResolves =>
       \A i \in 1..Len(harvested'.breakdown) :
         \A j \in 1..Len(deployedTokens) :
           (deployedTokens[j].mint = harvested'.breakdown[i].tokenMint)
             => /\ j <= Len(deployedTokens')
                /\ deployedTokens'[j].totalFeesEarned =
                     deployedTokens[j].totalFeesEarned
                       + harvested'.breakdown[i].lpFees
                       + harvested'.breakdown[i].creatorFees]_vars

\* C17: totalEarned counts each fee transfer the wallet received at most once.
C17_CountedOnce == totalEarned <= feesReceived

\* ----------------------------------------------- properties: checkStatus
\* the tier by the documented thresholds, credits in cents
TierByThresholds(credits) ==
  IF credits > 1200 THEN "normal"
  ELSE IF credits > 120 THEN "low_compute"
  ELSE IF credits > 0 THEN "critical"
  ELSE "dead"

\* C18: the tier of every status checkStatus returns is a function of the
\* credits it was called with alone: normal above 12, low_compute above 1.2 up
\* to 12, critical above 0 up to 1.2, dead at 0 or below, whatever the earlier
\* calls and the stable and native balances were.
C18_TierByCredits == status.tier = TierByThresholds(status.conwayCredits)

\* a call with credits just above 1.2 and no stable balance returned
\* low_compute without a Bridge call
C18_Witness ==
  /\ status.conwayCredits = 125
  /\ status.tier = "low_compute"
  /\ status.usdcBalance = 0
  /\ Len(scalls) = 0

\* C19 as stated: checkStatus called with credits = 11 returns tier critical.
C19_ElevenIsCritical == (status.conwayCredits = 1100) => (status.tier = "critical")

\* C19: checkStatus called with credits = 11 returns tier low_compute; critical
\* is returned for credits above 0 up to 1.2, such as 1.
C19_ElevenIsLowCompute ==
  /\ (status.conwayCredits = 1100) => (status.tier = "low_compute")
  /\ (status.conwayCredits = 100) => (status.tier = "critical")

\* checkStatus has returned for credits = 11
C19_Witness == status.conwayCredits = 1100 /\ status.tier # "dead"

\* C20: a checkStatus call invokes the Bridge exactly when the tier of its
\* credits is low_compute or critical and the stable balance is above 1, and
\* the amount it passes is min(0.8 * stable balance, 50).
C20_BridgeIff ==
  [][/\ (spc = "idle" /\ spc' # "idle")
          => /\ spc' = "bridgeUsdcToBase"
             /\ TierByThresholds(sarg'.conwayCredits) \in {"low_compute", "critical"}
             /\ sarg'.usdcBalance > 100
             /\ Len(scalls') = 1
             /\ scalls'[1].op = "bridgeUsdcToBase"
             /\ IF 80 * sarg'.usdcBalance <= 100 * 5000
                  THEN 100 * scalls'[1].amount = 80 * sarg'.usdcBalance
                  ELSE scalls'[1].amount = 5000
     /\ (spc = "idle" /\ spc' = "idle")
          => /\ scalls' = <<>>
             /\ \/ status'.tier \in {"normal", "dead"}
                \/ status'.usdcBalance <= 100
     /\ (spc # "idle")
          => (Len(scalls') > Len(scalls)
                => scalls'[Len(scalls')].amount = scalls[1].amount)]_vars

\* a critical call with a stable balance above 62.5 passed the capped amount
C20_Witness ==
  /\ spc = "bridgeUsdcToBase"
  /\ sarg.conwayCredits = 100
  /\ sarg.usdcBalance = 10000
  /\ scalls[1].amount = BridgeMaxUsdc

\* the runway (tenths of an hour) is credits / rate rounded to one decimal
RunwayIs(runway, credits, rate) ==
  /\ 2 * runway * rate - rate <= 20 * credits
  /\ 20 * credits < 2 * runway * rate + rate

\* C21: a checkStatus call that attempted the auto-bridge returns a status
\* whatever the Bridge did: tier, credits and runway are those of the call's
\* credits, and the action is the tier's message extended with the attempted
\* amount when both Bridge steps succeeded, with the error text when one failed.
C21_BridgeOutcomeReported ==
  [][(spc # "idle" /\ spc' = "idle")
       => /\ status'.tier = TierByThresholds(sarg.conwayCredits)
          /\ status'.conwayCredits = sarg.conwayCredits
          /\ status'.estimatedRunwayHours
               = IF sarg.conwayCredits > 120 THEN sarg.conwayCredits
                                              ELSE 5 * sarg.conwayCredits
          /\ status'.action.base = status'.tier
          /\ status'.action.note \in {"bridging", "failed"}
          /\ (status'.action.note = "bridging")
               => /\ spc = "topUpConwayCredits"
                  /\ status'.action.amount = scalls[1].amount
                  /\ status'.action.error = ""
          /\ (status'.action.note = "failed")
               => status'.action.error \in Messages]_vars

\* the top-up failed after the bridging step had succeeded
C21_Witness ==
  /\ spc = "idle"
  /\ Len(scalls) = 2
  /\ status.action.note = "failed"
  /\ status.tier = "critical"

\* C22: the runway of every returned status is its credits divided by the burn
\* rate of its tier (0.5, 0.1, 0.02), to one decimal, and 0 in tier dead, for
\* zero and negative credits too.
C22_RunwayByRate ==
  /\ (status.tier = "normal")
       => RunwayIs(status.estimatedRunwayHours, status.conwayCredits, 50)
  /\ (status.tier = "low_compute")
       => RunwayIs(status.estimatedRunwayHours, status.conwayCredits, 10)
  /\ (status.tier = "critical")
       => RunwayIs(status.estimatedRunwayHours, status.conwayCredits, 2)
  /\ (status.tier = "dead") => status.estimatedRunwayHours = 0
  /\ (status.conwayCredits <= 0) => status.tier = "dead"

\* a call with negative credits returned runway 0
C22_Witness ==
  /\ status.conwayCredits < 0
  /\ status.tier = "dead"
  /\ status.estimatedRunwayHours = 0

\* ------------------------------------------- properties: handler boundary
\* C23: no tool invocation and no heartbeat run ends with its promise
\* rejected: every collaborator failure, the balance query's included, comes
\* back as a structured result or an {error} value.
C23_NeverThrows == returned.kind # "throw"

\* --------------------------------------------- properties: portfolio_check
\* the position of the list with the given mint is older than the window
OlderThanWindow(token, t) == NowMs(t) - NowMs(token.deployedAt) > 86400000

C25_MarkDeadIdempotent ==
  [][/\ (ppc = "getFullPortfolio" /\ ppc' = "idle")
          => MarkDead(deployedTokens', deployedTokens', now') = deployedTokens'
     /\ \A i \in 1..Len(deployedTokens) :
          (deployedTokens[i].status = "dead")
            => /\ i <= Len(deployedTokens')
               /\ deployedTokens'[i].mint = deployedTokens[i].mint
               /\ deployedTokens'[i].status = "dead"]_vars

\* a run marked the older position dead, the clock moved past the window of
\* the other, and a second run has marked that one too
C25_Witness ==
  /\ ppc = "idle"
  /\ Len(deployedTokens) = 2
  /\ deployedTokens[1].status = "dead"
  /\ deployedTokens[2].status = "dead"
  /\ advances > 0

\* ------------------------------------------------- properties: end to end
\* the request of p costs 1.0 and is at its gates right after the first
\* acceptance, which was of a request of cost 1.0 against a balance of 2.0
SecondRequestAtGates(p) ==
  /\ AtGates(p)
  /\ ProjectedCost(params[p]) = 200
  /\ Len(deployedTokens) = 1
  /\ totalInvested = 200
  /\ now = lastDeployTimestamp

\* C26 as stated: with balance 2.0, reserve 0.5, no position and no earlier
\* deployment a request of cost 1.0 is accepted, and a request of the same kind
\* that follows at once is rejected with the cooldown reason.
C26_SecondRejectedForCooldown ==
  [][\A p \in Procs :
       /\ (AtGates(p) /\ deployedTokens = <<>> /\ treasury[p] = 400
             /\ ProjectedCost(params[p]) = 200)
            => pc'[p] \in DeployerStates
       /\ SecondRequestAtGates(p) => RejectedWith(p, "Cooldown active")]_vars

\* C26: with balance 2.0, reserve 0.5, no position and no earlier deployment a
\* request of cost 1.0 is accepted, and a request of the same kind that
\* follows at once is rejected: with the insufficient-funds reason when the
\* balance it reads less 1.0 is below the reserve, with the cooldown reason
\* otherwise.
C26_SecondRejected ==
  [][\A p \in Procs :
       /\ (AtGates(p) /\ deployedTokens = <<>> /\ treasury[p] = 400
             /\ ProjectedCost(params[p]) = 200)
            => pc'[p] \in DeployerStates
       /\ SecondRequestAtGates(p)
            => /\ Len(deployedTokens') = 1
               /\ IF treasury[p] - 200 < 100
                    THEN RejectedWith(p, "Insufficient SOL")
                    ELSE RejectedWith(p, "Cooldown active")]_vars

\* the request that followed at once was rejected for the cooldown
C26_Witness ==
  /\ returned.tool = "deploy_memecoin"
  /\ returned.error.reason = "Cooldown active"
  /\ Len(deployedTokens) = 1
  /\ totalInvested = 200
  /\ now = lastDeployTimestamp
  /\ solBalance = 300

\* ------------------------------------------------ properties: harvest scope
\* the active positions of a list, in list order
ActivePositions(tokens) ==
  [ i \in 1..Cardinality({j \in 1..Len(tokens) : tokens[j].status = "active"}) |->
      tokens[CHOOSE j \in 1..Len(tokens) :
               /\ tokens[j].status = "active"
               /\ Cardinality({k \in 1..j : tokens[k].status = "active"}) = i] ]

\* C27: harvest queries active positions only: the heartbeat's scope "all" is
\* exactly the active positions of the list, the scope of a harvest_fees call
\* is that or at most one position, active, and every breakdown entry is for
\* an active position, so dead and graduated ones contribute nothing.
C27_ActiveOnly ==
  [][/\ (fpc = "idle" /\ fpc' = "harvest")
          => fscope' = ActivePositions(deployedTokens)
     /\ (hpc = "idle" /\ hpc' = "harvest")
          => \/ hscope' = ActivePositions(deployedTokens)
             \/ /\ Len(hscope') <= 1
                /\ \A i \in 1..Len(hscope') :
                     \E j \in 1..Len(deployedTokens) :
                       deployedTokens[j] = hscope'[i] /\ hscope'[i].status = "active"
     /\ HarvestResolves
          => \A i \in 1..Len(harvested'.breakdown) :
               \E j \in 1..Len(deployedTokens) :
                 /\ deployedTokens[j].mint = harvested'.breakdown[i].tokenMint
                 /\ deployedTokens[j].status = "active"]_vars

\* a harvest over a registry holding a graduated position resolved with the
\* fees of the active one alone
C27_Witness ==
  /\ harvested.by # "none"
  /\ Len(deployedTokens) = 2
  /\ deployedTokens[1].status = "graduated"
  /\ Len(harvested.breakdown) = 1
  /\ harvested.totalHarvested > 0

\* C28: txSignatures holds exactly the references of the liquidity-fee
\* collections of the positions in scope that are not the placeholder value;
\* the placeholder is never in it.
C28_NoPlaceholderReference ==
  [][HarvestResolves =>
       /\ \A i \in 1..Len(harvested'.txSignatures) :
            harvested'.txSignatures[i] # "PLACEHOLDER_TX"
       /\ Len(harvested'.txSignatures) =
            Cardinality({i \in 1..Len(harvested'.scope) :
                           /\ harvested'.scope[i].lpAddress # "undefined"
                           /\ CollectFees(harvested'.scope[i].lpAddress).txSignature
                                # "PLACEHOLDER_TX"})]_vars

\* a harvest collected from a position with a pool and returned no reference
C28_Witness ==
  /\ harvested.by # "none"
  /\ \E i \in 1..Len(harvested.scope) : harvested.scope[i].lpAddress # "undefined"
  /\ harvested.txSignatures = <<>>

\* ------------------------------------------------ properties: strategy_review
\* C29: after any number of strategy_review runs the history has at most 30
\* entries, one per run, and they are the most recent runs in the order they
\* happened: once 30 is exceeded the oldest entry is the one dropped.
C29_RollingHistory ==
  /\ Len(dailyPerformance) <= 30
  /\ Len(dailyPerformance) = (IF reviews < 30 THEN reviews ELSE 30)
  /\ \A i \in 1..Len(dailyPerformance) :
       dailyPerformance[i].run = reviews - Len(dailyPerformance) + i
  /\ \A i \in 1..(Len(dailyPerformance) - 1) :
       dailyPerformance[i].date <= dailyPerformance[i + 1].date

\* the thirty-second run has dropped the entries of the first two
C29_Witness ==
  /\ reviews = 32
  /\ Len(dailyPerformance) = 30
  /\ dailyPerformance[1].run = 3
  /\ dailyPerformance[30].date > dailyPerformance[1].date

\* ----------------------------------------------------- properties: no retry
\* no collaborator operation occurs twice in a sequence of calls
EachAtMostOnce(ops) ==
  \A i, j \in 1..Len(ops) :
    (ops[i] = ops[j] /\ ops[i] \in CollaboratorStates) => i = j

\* C30: a deploy_memecoin request invokes each of deployViaPumpFun,
\* deployDirect and createPool at most once, and the step in which a
\* collaborator fails ends the request with {error} without another call.
C30_NoRetry ==
  [][\A p \in Procs :
       /\ EachAtMostOnce(calls'[p])
       /\ (pc'[p] = "idle" /\ pc[p] # "idle") => EachAtMostOnce(returned'.calls)
       /\ (pc[p] \in CollaboratorStates /\ (pc'[p] # pc[p] \/ calls'[p] # calls[p]))
            => \/ /\ pc'[p] = "idle"
                  /\ returned'.kind = "success"
                  /\ returned'.calls = calls[p]
               \/ /\ pc[p] = "deployDirect"
                  /\ pc'[p] = "createPool"
                  /\ calls'[p] = Append(calls[p], "createPool")
               \/ /\ pc'[p] = "idle"
                  /\ returned'.kind = "error"
                  /\ returned'.thrown \in Messages
                  /\ returned'.calls = calls[p]]_vars

\* createPool failed after deployDirect had succeeded, and the request ended
C30_Witness ==
  /\ returned.tool = "deploy_memecoin"
  /\ returned.kind = "error"
  /\ returned.thrown \in Messages
  /\ returned.calls = <<"getTreasuryState", "deployDirect", "createPool">>
  /\ pc[1] = "idle"

\* ------------------------------------------------ properties: bridge order
\* C31: in an auto-bridge attempt the conversion is invoked first and the
\* top-up second, both with the same amount, and an attempt whose conversion
\* fails ends without the top-up being invoked.
C31_ConvertThenTopUp ==
  [][/\ Len(scalls') <= 2
     /\ (Len(scalls') >= 1) => scalls'[1].op = "bridgeUsdcToBase"
     /\ (Len(scalls') = 2)
          => /\ scalls'[2].op = "topUpConwayCredits"
             /\ scalls'[2].amount = scalls'[1].amount
             /\ spc \in {"bridgeUsdcToBase", "topUpConwayCredits"}
     /\ (Len(scalls') = 2 /\ Len(scalls) = 1)
          => (spc = "bridgeUsdcToBase" /\ spc' = "topUpConwayCredits")
     /\ (spc = "bridgeUsdcToBase" /\ spc' = "idle")
          => /\ status'.action.note = "failed"
             /\ Len(scalls') = 1]_vars

\* the conversion failed and the attempt ended with the one call
C31_Witness ==
  /\ spc = "idle"
  /\ Len(scalls) = 1
  /\ status.action.note = "failed"
  /\ status.usdcBalance > 100

\* --------------------------------------------- properties: gates and calls
\* C32: a deploy_memecoin request rejected by the concurrency gate has called
\* no external collaborator: neither the balance query nor a deployer.
C32_ConcurrencyRejectsOffline ==
  [][\A p \in Procs :
       RejectedWith(p, "Max concurrent tokens reached") => returned'.calls = <<>>]_vars

\* the time since lastDeployTimestamp (0 when nothing was deployed), in ms
Elapsed == NowMs(now) - NowMs(lastDeployTimestamp)

\* w is the remaining cooldown rounded up to whole minutes
IsWaitFor(w, remaining) == 60000 * (w - 1) < remaining /\ remaining <= 60000 * w

NextConcurrency ==
  \/ \E p \in Procs : DeployMemecoin(p)
  \/ DeployUtilityToken
  \/ PortfolioCheck

\* a start over a position an earlier run recorded a cooldown ago, its mint
\* outside the ones this run creates
InitConcurrency ==
  /\ InitFrom(<<NewToken(0, DefaultRequest, "undefined", Earlier(1))>>,
              TotalCost(DefaultRequest), {1000}, 1)
  /\ InitFees
  /\ pumpfunEnabled
  /\ raydiumEnabled
  /\ ~stateByReference

SpecConcurrency == InitConcurrency /\ [][NextConcurrency]_vars

\* C34: in every reachable state the number of positions with status active
\* is at most maxConcurrentTokens, whatever the interleaving of
\* deploy_memecoin, deploy_utility_token and portfolio_check
C34_ActiveWithinLimit == ActiveCount <= maxConcurrentTokens

\* ------------------------------------------------ the counters, overlapping
\* deploy_memecoin requests overlapping each other, and harvest_fees
\* overlapping the fee_harvest heartbeat, over the earlier position and within
\* one tick of the clock
NextInterleaved ==
  \/ /\ hpc = "idle"
     /\ fpc = "idle"
     /\ \E p \in Procs : DeployMemecoin(p)
  \/ /\ \A p \in Procs : pc[p] = "idle"
     /\ HarvestFees
  \/ /\ \A p \in Procs : pc[p] = "idle"
     /\ FeeHarvest

SpecInterleaved == InitConcurrency /\ [][NextInterleaved]_vars

\* the request of p returns success in this step
Accepted(p) ==
  /\ pc[p] # "idle"
  /\ pc'[p] = "idle"
  /\ returned'.tool = "deploy_memecoin"
  /\ returned'.kind = "success"

\* C35: no update of a cumulative counter is lost under interleaving: every
\* step in which a harvest resolves adds exactly its totalHarvested to the
\* current totalEarned, every step in which a deployment is accepted adds
\* exactly its total cost to the current totalInvested, and no other step
\* changes either, so the final values are the initial ones plus the sum of
\* everything added.
C35_NoLostUpdate ==
  [][/\ totalEarned' =
          totalEarned + (IF HarvestResolves THEN harvested'.totalHarvested ELSE 0)
     /\ \A p \in Procs :
          Accepted(p) => totalInvested' = totalInvested + TotalCost(params[p])
     /\ (\A p \in Procs : ~Accepted(p)) => totalInvested' = totalInvested]_vars

\* two deployments were accepted over the same cooldown reading and two
\* harvests were added, the heartbeat's while harvest_fees was still in flight
C35_Witness ==
  /\ Len(deployedTokens) = 3
  /\ totalInvested > 2 * TotalCost(DefaultRequest)
  /\ totalEarned = 2 * feeHistory
  /\ feeHistory > 0
  /\ hpc = "sendSol"

\* ------------------------------------- the heartbeat's survival status
\* the treasury_rebalance heartbeat alone, over any stable balance
SpecRebalance == InitCopy /\ [][TreasuryRebalance]_vars

\* C36: every survival status the treasury_rebalance heartbeat computes has
\* tier dead and runway 0 and carries 0 credits, and the heartbeat never
\* invokes the Bridge, whatever the stable balance of its snapshot is.
C36_HeartbeatAlwaysDead ==
  [][(tpc = "checkStatus" /\ tpc' # "checkStatus")
       => /\ tsnap.conwayCredits = 0
          /\ status'.tier = "dead"
          /\ status'.estimatedRunwayHours = 0
          /\ status'.usdcBalance = tsnap.usdcBalance
          /\ spc' = "idle"
          /\ scalls' = <<>>]_vars

\* the heartbeat computed a status over a stable balance above the bridge
\* minimum
C36_Witness ==
  /\ tcalls = 1
  /\ tpc = "idle"
  /\ status.tier = "dead"
  /\ status.usdcBalance > BridgeMinUsdc
  /\ scalls = <<>>

\* ------------------------------------------- every old position is marked
\* the heartbeat firing again and again, every lookup resolving, and the
\* clock moving on
SpecPortfolioFair ==
  /\ SpecPortfolio
  /\ WF_vars(PortfolioCheck)
  /\ WF_vars(\E d \in {1, StaleTicks} : Advance(d))

\* every position of the registry is dead
AllDead == \A i \in 1..Len(deployedTokens) : deployedTokens[i].status = "dead"

\* C37: after every completed portfolio_check each position older than 24h is
\* dead, whatever its status was before, and with the heartbeat firing
\* repeatedly and the clock moving every position is dead from some point on.
C37_OldPositionsDie ==
  /\ [][(ppc = "getFullPortfolio" /\ ppc' = "idle")
          => /\ Len(deployedTokens') = Len(deployedTokens)
             /\ \A i \in 1..Len(deployedTokens') :
                  OlderThanWindow(deployedTokens'[i], now)
                    => deployedTokens'[i].status = "dead"]_vars
  /\ <>[]AllDead

\* one tick after the start both positions are dead: the one that was older
\* than the window, whatever its status was, and the one that has just
\* crossed it
C37_Witness ==
  /\ ppc = "idle"
  /\ now = Now0 + 1
  /\ Len(deployedTokens) = 2
  /\ OlderThanWindow(deployedTokens[2], now)
  /\ AllDead

\* ------------------------------------------------ the recorded method
\* C38: the position a deploy_memecoin request records carries the method
\* pumpfun only if the request's deployer call was deployViaPumpFun, also
\* when pump.fun is disabled and the request took the direct path.
C38_MethodAsDeployed ==
  [][\A p \in Procs :
       Accepted(p)
         => LET token == deployedTokens'[Len(deployedTokens')]
            IN (token.method = "pumpfun")
                 => (\E i \in 1..Len(calls[p]) : calls[p][i] = "deployViaPumpFun")]_vars

\* ------------------------------------------------------ frame conditions
\* the ledger counters and the cooldown timestamp of the persisted state
Counters == <<totalInvested, totalEarned, lastDeployTimestamp>>

\* position b is position a up to its status
SameButStatus(a, b) == [b EXCEPT !.status = a.status] = a

\* C39: a step of portfolio_check changes nothing of the persisted state but
\* the status field of positions; a step of harvest_fees or fee_harvest
\* changes nothing of it but totalEarned; the step in which a deploy_memecoin
\* request is accepted leaves totalEarned and every existing position as it
\* was; a step of checkStatus changes none of it.
C39_Frames ==
  [][/\ (ppc' # ppc)
          => /\ Counters' = Counters
             /\ Len(deployedTokens') = Len(deployedTokens)
             /\ \A i \in 1..Len(deployedTokens) :
                  SameButStatus(deployedTokens[i], deployedTokens'[i])
     /\ (hpc' # hpc \/ fpc' # fpc)
          => /\ deployedTokens' = deployedTokens
             /\ totalInvested' = totalInvested
             /\ lastDeployTimestamp' = lastDeployTimestamp
     /\ \A p \in Procs :
          Accepted(p)
            => /\ totalEarned' = totalEarned
               /\ Len(deployedTokens') = Len(deployedTokens) + 1
               /\ SubSeq(deployedTokens', 1, Len(deployedTokens)) = deployedTokens
     /\ (spc' # spc \/ status' # status)
          => /\ Counters' = Counters
             /\ deployedTokens' = deployedTokens]_vars

====
